---- MODULE Spec2Model ----
(***************************************************************************)
(* Webhook verification and dispatch of eldercrank/stripe-core.            *)
(*                                                                         *)
(* One dispatcher object (a StripeHandler or a StripeManager) owns a       *)
(* registry dict from event name to the registered object.  A delivery     *)
(* walks Received -> Verified -> Parsed -> Dispatching -> Completed, or    *)
(* leaves through Rejected (SignatureVerificationError / ValueError) or    *)
(* Crashed (any other exception that escapes the method).                  *)
(*                                                                         *)
(* Python does not enforce the Callable annotation of the registration     *)
(* methods: the dict stores whatever object it is given.  Two shapes of    *)
(* registered object are modelled: a plain function (callable, not         *)
(* iterable, no __iadd__) and a list of functions (iterable, `+=` extends  *)
(* it in place).  The second shape is the only one for which the dispatch  *)
(* loop of process_webhook is reached with something to call.              *)
(***************************************************************************)
EXTENDS Integers, Sequences, FiniteSets, TLC

(* ------------------------------ bounds -------------------------------- *)

\* longest list object a delivery may build by in-place `+=`
MaxLen == 2

(* ----------------------------- universe ------------------------------- *)

WILDCARD == "*"
EventTypes == {"payment_intent.succeeded", "customer.created"}
Keys == EventTypes \cup {WILDCARD}

\* plain functions the application defines
Callables == {"h1", "h2"}
\* list objects the application may pass to a registration method
ListObjs == {"L1", "L2"}
\* objects handed to add_event_handler / add_webhook_handler
ObjIds == Callables \cup ListObjs

IsIterable(o) == o \in ListObjs

\* callables without a __name__ attribute (a functools.partial, an instance
\* of a class that defines __call__) that a list object may hold
Unnamed == {"p1"}
HasName(f) == f \notin Unnamed

Secrets == {"whsec_1", "whsec_2"}

NoObject == "<no object key>"
EmptyMapping == "{}"

Fields == {"id", "type", "data"}

\* A payload: whether it decodes as JSON, which top-level fields the decoded
\* mapping carries, its event type and the value under data["object"].
Unset == "None"

Payload(json, fields, type, obj) ==
    [json |-> json, fields |-> fields, type |-> type, obj |-> obj,
     id |-> "evt_123", api_version |-> Unset]

\* the same payload with another id and an api_version entry
Versioned(p, id, version) == [p EXCEPT !.id = id, !.api_version = version]

Payloads ==
    { Payload(TRUE, Fields, t, "{id: pi_1}") : t \in EventTypes }
    \cup { Payload(TRUE, Fields, "payment_intent.succeeded", NoObject) }
    \cup { Payload(TRUE, Fields \ {f}, "payment_intent.succeeded", "{id: pi_1}")
             : f \in Fields }
    \cup { Payload(FALSE, {}, "payment_intent.succeeded", NoObject) }
    \cup { Versioned(Payload(TRUE, Fields, "customer.created", EmptyMapping),
                      "evt_456", "2024-01-01") }

NoPayload == Payload(FALSE, {}, "", NoObject)
NoEvent == [id |-> "", type |-> "", data |-> {}, api_version |-> Unset]

\* application threads that use the registry
Threads == {"T1", "T2"}

\* facade objects the application constructs, and the keys it has
InstIds == {"i1", "i2"}
ApiKeys == {"sk_test_1", "sk_test_2"}

NoInstances == [i \in {} |-> [cls |-> "manager", api_key |-> "sk_test_1"]]
NoCall == [inst |-> "-", op |-> "-", attempts |-> <<>>, outcome |-> "none"]

(* ------------------------- dict operations ---------------------------- *)

EmptyDict == [k \in {} |-> "h1"]

\* d.setdefault(k, v): an existing entry is kept
DictSet_keep(d, k, v) ==
    [x \in (DOMAIN d) \cup {k} |-> IF x \in DOMAIN d THEN d[x] ELSE v]

\* d[k] = v
DictSet(d, k, v) == [x \in (DOMAIN d) \cup {k} |-> IF x = k THEN v ELSE d[x]]

\* d.clear(): every entry goes, not only k
DictDel_all(d, k) == EmptyDict

\* del d[k]
DictDel(d, k) == [x \in (DOMAIN d) \ {k} |-> d[x]]

VARIABLES
    kind,            \* "handler" (StripeHandler) or "manager" (StripeManager)
    registry,        \* self._event_handlers / self._webhook_handlers
    heap,            \* contents of the list objects the application created
    webhook_secret,  \* the secret the verifier is called with
    pc,              \* position of the delivery in flight
    payload,         \* argument of the delivery in flight
    sig_header,      \* the secret the header's signature was computed with
    event,           \* event_model, once parsed
    handlers,        \* the local list `handlers` iterated by the loop
    idx,             \* number of loop iterations finished
    calls,           \* callbacks invoked by this delivery, in order
    outcome,         \* what the call returned or raised
    lastOp,          \* history: the most recent registry operation per key
    regError,        \* the exception a registry operation raised, if any
    rmpc,            \* per thread: the key it found present and is about to del
    href,            \* what the local `handlers` is bound to between the two gets
    instances,       \* the constructed facade objects: class and api_key
    stripe_api_key,  \* the module global stripe.api_key
    last             \* the most recent facade operation and its remote calls

vars == <<kind, registry, heap, webhook_secret, pc, payload, sig_header,
          event, handlers, idx, calls, outcome, lastOp, regError, rmpc, href,
          instances, stripe_api_key, last>>

\* state of the remote-API facade
facade == <<instances, stripe_api_key, last>>

\* state of concurrently running registry operations
racing == <<rmpc, href>>

delivery == <<pc, payload, sig_header, event, handlers, idx, calls, outcome>>

\* history record of one key: the operation, the object it registered, and
\* whether it hit an existing entry (a register that replaced a different
\* object, an unregister that found the key)
NoOp == [op |-> "none", obj |-> "-", hit |-> FALSE]

Overwrites(d, k, v) == k \in DOMAIN d /\ d[k] # v

Init ==
    /\ kind \in {"handler", "manager"}
    /\ registry = EmptyDict
    /\ heap = [l \in ListObjs |-> IF l = "L1" THEN <<"h1">> ELSE <<"h2">>]
    /\ webhook_secret = "whsec_1"
    /\ pc = "Idle"
    /\ payload = NoPayload
    /\ sig_header = "whsec_1"
    /\ event = NoEvent
    /\ handlers = <<>>
    /\ idx = 0
    /\ calls = <<>>
    /\ outcome = "none"
    /\ lastOp = [k \in Keys |-> NoOp]
    /\ regError = "none"
    /\ rmpc = [t \in Threads |-> "-"]
    /\ href = "-"
    /\ instances = NoInstances
    /\ stripe_api_key = "None"
    /\ last = NoCall

(* ------------------------ registry operations ------------------------- *)

\* del without the membership test: an absent key raises KeyError
RemoveResult_unguarded(d, k) ==
    IF k \in DOMAIN d
    THEN [reg |-> DictDel(d, k), err |-> "none"]
    ELSE [reg |-> d, err |-> "KeyError"]

\* if event_name in d: del d[event_name]   -- nothing happens for an absent key
RemoveResult(d, k) ==
    IF k \in DOMAIN d
    THEN [reg |-> DictDel(d, k), err |-> "none"]
    ELSE [reg |-> d, err |-> "none"]

\* self._event_handlers[event_name] = handler
add_event_handler(event_name, handler) ==
    /\ kind = "handler"
    /\ pc = "Idle"
    /\ registry' = DictSet(registry, event_name, handler)
    /\ lastOp' = [lastOp EXCEPT ![event_name] =
                     [op |-> "register", obj |-> handler,
                      hit |-> Overwrites(registry, event_name, handler)]]
    /\ UNCHANGED <<kind, heap, webhook_secret, delivery, regError, racing, facade>>

\* if event_name in self._event_handlers: del self._event_handlers[event_name]
remove_event_handler(event_name) ==
    /\ kind = "handler"
    /\ pc = "Idle"
    /\ registry' = RemoveResult(registry, event_name).reg
    /\ regError' = IF RemoveResult(registry, event_name).err = "none"
                   THEN regError
                   ELSE RemoveResult(registry, event_name).err
    /\ lastOp' = [lastOp EXCEPT ![event_name] =
                     [op |-> "unregister", obj |-> "-",
                      hit |-> event_name \in DOMAIN registry]]
    /\ UNCHANGED <<kind, heap, webhook_secret, delivery, racing, facade>>

\* self._webhook_handlers[event_name] = handler  (then an info log record)
add_webhook_handler(event_name, handler) ==
    /\ kind = "manager"
    /\ pc = "Idle"
    /\ registry' = DictSet(registry, event_name, handler)
    /\ lastOp' = [lastOp EXCEPT ![event_name] =
                     [op |-> "register", obj |-> handler,
                      hit |-> Overwrites(registry, event_name, handler)]]
    /\ UNCHANGED <<kind, heap, webhook_secret, delivery, regError, racing, facade>>

\* if present: del and info log; else: warning log
remove_webhook_handler(event_name) ==
    /\ kind = "manager"
    /\ pc = "Idle"
    /\ registry' = RemoveResult(registry, event_name).reg
    /\ regError' = IF RemoveResult(registry, event_name).err = "none"
                   THEN regError
                   ELSE RemoveResult(registry, event_name).err
    /\ lastOp' = [lastOp EXCEPT ![event_name] =
                     [op |-> "unregister", obj |-> "-",
                      hit |-> event_name \in DOMAIN registry]]
    /\ UNCHANGED <<kind, heap, webhook_secret, delivery, racing, facade>>

(* --------------------------- the delivery ----------------------------- *)

\* the in-place growth the `+=` of this delivery would cause stays bounded
GrowthBounded(p) ==
    (/\ p.type \in DOMAIN registry
     /\ WILDCARD \in DOMAIN registry
     /\ IsIterable(registry[p.type])
     /\ IsIterable(registry[WILDCARD]))
    => Len(heap[registry[p.type]]) + Len(heap[registry[WILDCARD]]) <= MaxLen

\* StripeHandler.process_webhook(payload, sig_header) is entered; the secret
\* is the one configured at construction
process_webhook(p, hdr) ==
    /\ kind = "handler"
    /\ pc = "Idle"
    /\ GrowthBounded(p)
    /\ pc' = "Received"
    /\ payload' = p
    /\ sig_header' = hdr
    /\ UNCHANGED <<kind, registry, heap, webhook_secret, event, handlers, idx,
                   calls, outcome, lastOp>>
    /\ UNCHANGED <<regError, racing, facade>>

\* StripeManager.process_webhook_payload(payload, sig_header, webhook_secret)
process_webhook_payload(p, hdr, secret) ==
    /\ kind = "manager"
    /\ pc = "Idle"
    /\ GrowthBounded(p)
    /\ pc' = "Received"
    /\ payload' = p
    /\ sig_header' = hdr
    /\ webhook_secret' = secret
    /\ UNCHANGED <<kind, registry, heap, event, handlers, idx, calls, outcome,
                   lastOp>>
    /\ UNCHANGED <<regError, racing, facade>>

\* the payload is decoded but its signature is never compared
construct_event_unverified(p, hdr, secret) ==
    IF ~p.json THEN "ValueError" ELSE "ok"

\* stripe.Webhook.construct_event: the signature is checked first, the
\* payload is decoded second
construct_event(p, hdr, secret) ==
    IF hdr # secret THEN "SignatureVerificationError"
    ELSE IF ~p.json THEN "ValueError"
    ELSE "ok"

\* the except clause raises ValueError(str(e)) instead of re-raising e
TryBlock_wrapping(p, hdr, secret) ==
    LET r == construct_event(p, hdr, secret) IN
    IF r # "ok" THEN "ValueError"
    ELSE IF "type" \notin p.fields \/ "id" \notin p.fields THEN "KeyError"
    ELSE "ok"

\* the try block: construct_event, then the info log that reads
\* event['type'] and event['id']; only ValueError and
\* SignatureVerificationError are caught (and re-raised)
TryBlock(p, hdr, secret) ==
    LET r == construct_event(p, hdr, secret) IN
    IF r # "ok" THEN r
    ELSE IF "type" \notin p.fields \/ "id" \notin p.fields THEN "KeyError"
    ELSE "ok"

\* the manager's `except ValueError` clause returns None instead of raising
ManagerTryBlock_lenient(p, hdr, secret) ==
    LET r == construct_event(p, hdr, secret) IN
    CASE r = "ValueError" -> "None"
      [] r = "SignatureVerificationError" -> "SignatureVerificationError"
      [] OTHER -> IF "type" \notin p.fields \/ "id" \notin p.fields
                  THEN "KeyError"
                  ELSE "ok"

\* StripeManager's try block: the same two statements, with one except
\* clause for ValueError and one for SignatureVerificationError, each
\* logging and re-raising e
ManagerTryBlock(p, hdr, secret) ==
    LET r == construct_event(p, hdr, secret) IN
    CASE r = "ValueError" -> "ValueError"
      [] r = "SignatureVerificationError" -> "SignatureVerificationError"
      [] OTHER -> IF "type" \notin p.fields \/ "id" \notin p.fields
                  THEN "KeyError"
                  ELSE "ok"

\* the error kinds of the spec for the two exception classes the docstring names
ErrorKind(exc) ==
    CASE exc = "SignatureVerificationError" -> "SignatureMismatch"
      [] exc = "ValueError" -> "MalformedPayload"
      [] OTHER -> exc

Verify ==
    /\ pc = "Received"
    /\ LET r == IF kind = "manager"
                THEN ManagerTryBlock(payload, sig_header, webhook_secret)
                ELSE TryBlock(payload, sig_header, webhook_secret) IN
       /\ pc' = CASE r = "ok" -> "Verified"
                  [] r \in {"SignatureVerificationError", "ValueError"} -> "Rejected"
                  [] OTHER -> "Crashed"
       /\ outcome' = IF r = "ok" THEN outcome ELSE ErrorKind(r)
    /\ UNCHANGED <<kind, registry, heap, webhook_secret, payload, sig_header,
                   event, handlers, idx, calls, lastOp>>
    /\ UNCHANGED <<regError, racing, facade>>

\* every field optional: a missing field is silently defaulted
StripeEvent_defaulting(p) ==
    [ok |-> TRUE,
     model |-> [id |-> p.id, type |-> p.type,
                data |-> IF p.obj = NoObject \/ "data" \notin p.fields THEN {}
                         ELSE {<<"object", p.obj>>},
                api_version |-> p.api_version]]

\* StripeEvent(**event): id, type and data are required; pydantic's
\* ValidationError is a ValueError
StripeEvent(p) ==
    IF Fields \subseteq p.fields
    THEN [ok |-> TRUE,
          model |-> [id |-> p.id, type |-> p.type,
                     data |-> IF p.obj = NoObject THEN {}
                              ELSE {<<"object", p.obj>>},
                     api_version |-> p.api_version]]
    ELSE [ok |-> FALSE, model |-> NoEvent]

\* self.data.get("object"): None instead of {} for a missing key
event_object_nodefault(ev) ==
    IF \E kv \in ev.data : kv[1] = "object"
    THEN (CHOOSE kv \in ev.data : kv[1] = "object")[2]
    ELSE "None"

\* self.data.get("object", {})
event_object(ev) ==
    IF \E kv \in ev.data : kv[1] = "object"
    THEN (CHOOSE kv \in ev.data : kv[1] = "object")[2]
    ELSE EmptyMapping

Parse ==
    /\ pc = "Verified"
    /\ LET r == StripeEvent(payload) IN
       IF r.ok
       THEN /\ pc' = "Parsed"
            /\ event' = r.model
            /\ UNCHANGED outcome
       ELSE /\ pc' = "Rejected"
            /\ outcome' = ErrorKind("ValueError")
            /\ UNCHANGED event
    /\ UNCHANGED <<kind, registry, heap, webhook_secret, payload, sig_header,
                   handlers, idx, calls, lastOp>>
    /\ UNCHANGED <<regError, racing, facade>>

\* an empty resolution is treated as an error instead of a warning
ResolveHandlers_strict(reg, hp, event_type) ==
    IF event_type \notin DOMAIN reg /\ WILDCARD \notin DOMAIN reg
    THEN [err |-> "LookupError", seq |-> <<>>, heap |-> hp]
    ELSE IF (event_type \in DOMAIN reg /\ ~IsIterable(reg[event_type]))
            \/ (WILDCARD \in DOMAIN reg /\ ~IsIterable(reg[WILDCARD]))
    THEN [err |-> "TypeError", seq |-> <<>>, heap |-> hp]
    ELSE LET left == IF event_type \in DOMAIN reg THEN hp[reg[event_type]] ELSE <<>>
             right == IF WILDCARD \in DOMAIN reg THEN hp[reg[WILDCARD]] ELSE <<>>
         IN [err |-> "ok", seq |-> left \o right,
             heap |-> IF event_type \in DOMAIN reg
                      THEN [hp EXCEPT ![reg[event_type]] = left \o right]
                      ELSE hp]

\* handlers = registry.get(event_type, []); handlers += registry.get("*", [])
\*   - a plain function on the left of `+=` raises TypeError (no __iadd__)
\*   - a plain function on the right of `+=` raises TypeError (not iterable)
\*   - a stored list on the left is extended in place
\*   - the default [] is a fresh list, extended without touching the registry
ResolveHandlers(reg, hp, event_type) ==
    LET hasExact == event_type \in DOMAIN reg
        hasWild == WILDCARD \in DOMAIN reg
        left == IF hasExact THEN hp[reg[event_type]] ELSE <<>>
        right == IF hasWild THEN hp[reg[WILDCARD]] ELSE <<>>
    IN
    IF hasExact /\ ~IsIterable(reg[event_type])
    THEN [err |-> "TypeError", seq |-> <<>>, heap |-> hp]
    ELSE IF hasWild /\ ~IsIterable(reg[WILDCARD])
    THEN [err |-> "TypeError", seq |-> <<>>, heap |-> hp]
    ELSE [err |-> "ok",
          seq |-> left \o right,
          heap |-> IF hasExact
                   THEN [hp EXCEPT ![reg[event_type]] = left \o right]
                   ELSE hp]

Resolve ==
    /\ pc = "Parsed"
    /\ LET r == ResolveHandlers(registry, heap, event.type) IN
       IF r.err = "ok"
       THEN /\ pc' = "Dispatching"
            /\ handlers' = r.seq
            /\ heap' = r.heap
            /\ idx' = 0
            /\ UNCHANGED outcome
       ELSE /\ pc' = "Crashed"
            /\ outcome' = r.err
            /\ UNCHANGED <<handlers, heap, idx>>
    /\ UNCHANGED <<kind, registry, webhook_secret, payload, sig_header, event,
                   calls, lastOp>>
    /\ UNCHANGED <<regError, racing, facade>>

\* the log call an iteration gets to make: both messages are f-strings that
\* read handler.__name__ before the logger is called
LogLine(fn, raised) ==
    IF ~HasName(fn) THEN "none"
    ELSE IF raised THEN "exception" ELSE "debug"

\* one iteration of `for handler in handlers`: the call, and the except
\* clause that logs and swallows whatever Exception the callback raised.
\* Reading handler.__name__ of an object that has none raises
\* AttributeError: in the try block it is caught by the except clause,
\* whose own message reads the attribute again, outside any try
Invoke(raised) ==
    /\ pc = "Dispatching"
    /\ idx < Len(handlers)
    /\ LET fn == handlers[idx + 1] IN
       /\ calls' = Append(calls, [fn |-> fn,
                                  arg |-> event_object(event),
                                  raised |-> raised,
                                  logged |-> LogLine(fn, raised)])
       /\ IF HasName(fn)
          THEN /\ idx' = idx + 1
               /\ UNCHANGED <<pc, outcome>>
          ELSE /\ pc' = "Crashed"
               /\ outcome' = "AttributeError"
               /\ UNCHANGED idx
    /\ UNCHANGED <<kind, registry, heap, webhook_secret, payload,
                   sig_header, event, handlers, lastOp>>
    /\ UNCHANGED <<regError, racing, facade>>

\* return event_model
Complete ==
    /\ pc = "Dispatching"
    /\ idx = Len(handlers)
    /\ pc' = "Completed"
    /\ outcome' = "Event"
    /\ UNCHANGED <<kind, registry, heap, webhook_secret, payload, sig_header,
                   event, handlers, idx, calls, lastOp>>
    /\ UNCHANGED <<regError, racing, facade>>

Terminal == {"Completed", "Rejected", "Crashed"}

\* the caller has the result; the frame of the call is gone
Return ==
    /\ pc \in Terminal
    /\ pc' = "Idle"
    /\ payload' = NoPayload
    /\ sig_header' = "whsec_1"
    /\ webhook_secret' = "whsec_1"
    /\ event' = NoEvent
    /\ handlers' = <<>>
    /\ idx' = 0
    /\ calls' = <<>>
    /\ outcome' = "none"
    /\ UNCHANGED <<kind, registry, heap, lastOp>>
    /\ UNCHANGED <<regError, racing, facade>>

Next ==
    \/ \E k \in Keys, o \in ObjIds : add_event_handler(k, o)
    \/ \E k \in Keys : remove_event_handler(k)
    \/ \E k \in Keys, o \in ObjIds : add_webhook_handler(k, o)
    \/ \E k \in Keys : remove_webhook_handler(k)
    \/ \E p \in Payloads, hdr \in Secrets : process_webhook(p, hdr)
    \/ \E p \in Payloads, hdr \in Secrets, s \in Secrets :
          process_webhook_payload(p, hdr, s)
    \/ Verify
    \/ Parse
    \/ Resolve
    \/ \E raised \in BOOLEAN : Invoke(raised)
    \/ Complete
    \/ Return

Spec == Init /\ [][Next]_vars

(* ------------------- the registry under several threads ---------------- *)

\* inputs of the threaded runs
ThreadKeys == {"payment_intent.succeeded", WILDCARD}
ThreadObjs == {"h1", "L1"}
ThreadPayloads == {Payload(TRUE, Fields, "payment_intent.succeeded", "{id: pi_1}")}

\* a thread registers: one dict item assignment, atomic under the GIL
thread_add(t, event_name, handler) ==
    /\ rmpc[t] = "-"
    /\ registry' = DictSet(registry, event_name, handler)
    /\ lastOp' = [lastOp EXCEPT ![event_name] =
                     [op |-> "register", obj |-> handler,
                      hit |-> Overwrites(registry, event_name, handler)]]
    /\ UNCHANGED <<kind, heap, webhook_secret, delivery, regError, rmpc, href,
                   facade>>

\* a thread evaluates `event_name in self._event_handlers`; no lock is held,
\* so other threads run before its del
thread_remove_test(t, event_name) ==
    /\ rmpc[t] = "-"
    /\ IF event_name \in DOMAIN registry
       THEN /\ rmpc' = [rmpc EXCEPT ![t] = event_name]
            /\ UNCHANGED lastOp
       ELSE /\ lastOp' = [lastOp EXCEPT ![event_name] =
                             [op |-> "unregister", obj |-> "-", hit |-> FALSE]]
            /\ UNCHANGED rmpc
    /\ UNCHANGED <<kind, registry, heap, webhook_secret, delivery, regError,
                   href, facade>>

\* the thread executes `del self._event_handlers[event_name]`: KeyError when
\* the key has gone since the test
thread_remove_del(t) ==
    /\ rmpc[t] # "-"
    /\ LET k == rmpc[t] IN
       IF k \in DOMAIN registry
       THEN /\ registry' = DictDel(registry, k)
            /\ lastOp' = [lastOp EXCEPT ![k] =
                             [op |-> "unregister", obj |-> "-", hit |-> TRUE]]
            /\ UNCHANGED regError
       ELSE /\ regError' = "KeyError"
            /\ UNCHANGED <<registry, lastOp>>
    /\ rmpc' = [rmpc EXCEPT ![t] = "-"]
    /\ UNCHANGED <<kind, heap, webhook_secret, delivery, href, facade>>

\* handlers = registry.get(event_type, [])
ResolveExact ==
    /\ pc = "Parsed"
    /\ pc' = "Resolving"
    /\ href' = IF event.type \in DOMAIN registry THEN registry[event.type]
               ELSE "fresh"
    /\ UNCHANGED <<kind, registry, heap, webhook_secret, payload, sig_header,
                   event, handlers, idx, calls, outcome, lastOp, regError,
                   rmpc, facade>>

\* handlers += registry.get("*", []), on the registry as it is by now
ResolveWildcard ==
    /\ pc = "Resolving"
    /\ LET seen == IF href = "fresh" THEN DictDel(registry, event.type)
                   ELSE DictSet(registry, event.type, href)
           r == ResolveHandlers(seen, heap, event.type)
       IN
       /\ Len(r.seq) <= MaxLen
       /\ IF r.err = "ok"
          THEN /\ pc' = "Dispatching"
               /\ handlers' = r.seq
               /\ heap' = r.heap
               /\ idx' = 0
               /\ UNCHANGED outcome
          ELSE /\ pc' = "Crashed"
               /\ outcome' = r.err
               /\ UNCHANGED <<handlers, heap, idx>>
    /\ href' = "-"
    /\ UNCHANGED <<kind, registry, webhook_secret, payload, sig_header, event,
                   calls, lastOp, regError, rmpc, facade>>

NextThreads ==
    \/ \E t \in Threads, k \in ThreadKeys, o \in ThreadObjs : thread_add(t, k, o)
    \/ \E t \in Threads, k \in ThreadKeys : thread_remove_test(t, k)
    \/ \E t \in Threads : thread_remove_del(t)
    \/ \E p \in ThreadPayloads : process_webhook(p, "whsec_1")
    \/ \E p \in ThreadPayloads : process_webhook_payload(p, "whsec_1", "whsec_1")
    \/ Verify
    \/ Parse
    \/ ResolveExact
    \/ ResolveWildcard
    \/ \E raised \in BOOLEAN : Invoke(raised)
    \/ Complete
    \/ Return

\* registry operations and one delivery interleaved at statement granularity
SpecThreads == Init /\ [][NextThreads]_vars

(* ------------------------ the remote-API facade ------------------------ *)

\* most products one Product.list page returns
MaxProducts == 2

\* the StripeError subclasses the package re-exports for remote failures
RemoteErrors == {"APIConnectionError", "AuthenticationError", "RateLimitError",
                 "InvalidRequestError", "PermissionError", "IdempotencyError"}
RemoteResults == {"ok"} \cup RemoteErrors

\* the CRUD methods of StripeManager and the one remote call each makes
ManagerMethods ==
    { <<"create_product", "Product.create">>,
      <<"retrieve_product", "Product.retrieve">>,
      <<"update_product", "Product.modify">>,
      <<"delete_product", "Product.modify">>,
      <<"list_products", "Product.list">>,
      <<"create_price", "Price.create">>,
      <<"retrieve_price", "Price.retrieve">>,
      <<"update_price", "Price.modify">>,
      <<"delete_price", "Price.modify">>,
      <<"list_prices", "Price.list">>,
      <<"create_customer", "Customer.create">>,
      <<"retrieve_customer", "Customer.retrieve">>,
      <<"update_customer", "Customer.modify">>,
      <<"delete_customer", "Customer.delete">>,
      <<"list_customers", "Customer.list">>,
      <<"create_subscription", "Subscription.create">>,
      <<"retrieve_subscription", "Subscription.retrieve">>,
      <<"cancel_subscription", "Subscription.cancel">>,
      <<"list_subscriptions", "Subscription.list">>,
      <<"create_checkout_session", "checkout.Session.create">>,
      <<"retrieve_checkout_session", "checkout.Session.retrieve">>,
      <<"create_billing_portal_session", "billing_portal.Session.create">> }

\* one remote call: which API, under which stripe.api_key, with what result
Attempt(call, key, result) == [call |-> call, key |-> key, result |-> result]

\* the remote calls are made in order until one fails; the exception, which
\* nothing on the way converts, is what the facade method raises
RunCalls(i, op, key, planned, results) ==
    LET failing == {n \in 1..Len(planned) : results[n] # "ok"}
        stop == IF failing = {} THEN Len(planned)
                ELSE CHOOSE n \in failing : \A m \in failing : n <= m
    IN [inst |-> i, op |-> op,
        attempts |-> [n \in 1..stop |-> Attempt(planned[n], key, results[n])],
        outcome |-> IF failing = {} THEN "returned" ELSE results[stop]]

\* except StripeError: log, then `return None` instead of `raise e`
ManagerFacade_swallowing(i, method, key, result) ==
    [inst |-> i, op |-> method[1],
     attempts |-> <<Attempt(method[2], key, result)>>,
     outcome |-> "returned"]

\* try: the remote call, return a dict of its fields
\* except stripe.error.StripeError as e: log; raise e
ManagerFacade(i, method, key, result) ==
    RunCalls(i, method[1], key, <<method[2]>>, <<result>>)

\* StripeManager(api_key): the constructor also sets the module global
StripeManager_init(i, key) ==
    /\ i \notin DOMAIN instances
    /\ instances' = [x \in DOMAIN instances \cup {i} |->
                        IF x = i THEN [cls |-> "manager", api_key |-> key]
                        ELSE instances[x]]
    /\ stripe_api_key' = key
    /\ UNCHANGED <<kind, registry, heap, webhook_secret, delivery, lastOp,
                   regError, racing, last>>

\* StripeHandler(api_key, ...): the key is only stored on the object
StripeHandler_init(i, key) ==
    /\ i \notin DOMAIN instances
    /\ instances' = [x \in DOMAIN instances \cup {i} |->
                        IF x = i THEN [cls |-> "handler", api_key |-> key]
                        ELSE instances[x]]
    /\ UNCHANGED <<kind, registry, heap, webhook_secret, delivery, lastOp,
                   regError, racing, stripe_api_key, last>>

\* any CRUD method of a StripeManager: none of them sets stripe.api_key
manager_crud(i, method, result) ==
    /\ i \in DOMAIN instances
    /\ instances[i].cls = "manager"
    /\ last' = ManagerFacade(i, method, stripe_api_key, result)
    /\ UNCHANGED <<kind, registry, heap, webhook_secret, delivery, lastOp,
                   regError, racing, instances, stripe_api_key>>

\* stripe.api_key = self.api_key; Product.create; Price.create
create_subscription_product(i, r1, r2) ==
    /\ i \in DOMAIN instances
    /\ instances[i].cls = "handler"
    /\ stripe_api_key' = instances[i].api_key
    /\ last' = RunCalls(i, "create_subscription_product", instances[i].api_key,
                        <<"Product.create", "Price.create">>, <<r1, r2>>)
    /\ UNCHANGED <<kind, registry, heap, webhook_secret, delivery, lastOp,
                   regError, racing, instances>>

\* stripe.api_key = self.api_key; Product.list; one Price.list per product
list_active_products(i, r1, rs) ==
    /\ i \in DOMAIN instances
    /\ instances[i].cls = "handler"
    /\ stripe_api_key' = instances[i].api_key
    /\ last' = RunCalls(i, "list_active_products", instances[i].api_key,
                        <<"Product.list">> \o [n \in 1..Len(rs) |-> "Price.list"],
                        <<r1>> \o rs)
    /\ UNCHANGED <<kind, registry, heap, webhook_secret, delivery, lastOp,
                   regError, racing, instances>>

\* stripe.api_key = self.api_key; Product.modify(product_id, active=False)
deactivate_product(i, r) ==
    /\ i \in DOMAIN instances
    /\ instances[i].cls = "handler"
    /\ stripe_api_key' = instances[i].api_key
    /\ last' = RunCalls(i, "deactivate_product", instances[i].api_key,
                        <<"Product.modify">>, <<r>>)
    /\ UNCHANGED <<kind, registry, heap, webhook_secret, delivery, lastOp,
                   regError, racing, instances>>

\* stripe.api_key = self.api_key; Price.modify(price_id, active=False)
deactivate_price(i, r) ==
    /\ i \in DOMAIN instances
    /\ instances[i].cls = "handler"
    /\ stripe_api_key' = instances[i].api_key
    /\ last' = RunCalls(i, "deactivate_price", instances[i].api_key,
                        <<"Price.modify">>, <<r>>)
    /\ UNCHANGED <<kind, registry, heap, webhook_secret, delivery, lastOp,
                   regError, racing, instances>>

NextFacade ==
    \/ \E i \in InstIds, key \in ApiKeys : StripeManager_init(i, key)
    \/ \E i \in InstIds, key \in ApiKeys : StripeHandler_init(i, key)
    \/ \E i \in InstIds, m \in ManagerMethods, r \in RemoteResults :
          manager_crud(i, m, r)
    \/ \E i \in InstIds, r1, r2 \in RemoteResults :
          create_subscription_product(i, r1, r2)
    \/ \E i \in InstIds, r1 \in RemoteResults, n \in 0..MaxProducts :
          \E rs \in [1..n -> RemoteResults] : list_active_products(i, r1, rs)
    \/ \E i \in InstIds, r \in RemoteResults : deactivate_product(i, r)
    \/ \E i \in InstIds, r \in RemoteResults : deactivate_price(i, r)

\* facade objects are constructed and their CRUD methods called in any order
SpecFacade == Init /\ [][NextFacade]_vars

(* ------------------- whole deliveries, class by class ------------------ *)

\* what a delivery that got as far as `fate` leaves behind
Ending(fate, ev, seq, hp) ==
    LET nameless == {n \in 1..Len(seq) : ~HasName(seq[n])}
        stop == IF nameless = {} THEN Len(seq)
                ELSE CHOOSE n \in nameless : \A m \in nameless : n <= m
    IN
    [outcome |-> IF nameless = {} THEN fate ELSE "AttributeError",
     invoked |-> [n \in 1..stop |-> [fn |-> seq[n], arg |-> event_object(ev)]],
     heap |-> hp]

\* StripeHandler.process_webhook from entry to return or raise: the result
\* or error kind, the callbacks invoked with their argument, and the list
\* objects afterwards
process_webhook_result(reg, hp, p, hdr, secret) ==
    LET t == TryBlock(p, hdr, secret)
        e == StripeEvent(p)
        r == ResolveHandlers(reg, hp, e.model.type)
    IN
    IF t # "ok" THEN Ending(ErrorKind(t), NoEvent, <<>>, hp)
    ELSE IF ~e.ok THEN Ending(ErrorKind("ValueError"), NoEvent, <<>>, hp)
    ELSE IF r.err # "ok" THEN Ending(r.err, e.model, <<>>, hp)
    ELSE Ending("Event", e.model, r.seq, r.heap)

\* StripeManager.process_webhook_payload from entry to return or raise
process_webhook_payload_result(reg, hp, p, hdr, secret) ==
    LET t == ManagerTryBlock(p, hdr, secret)
        e == StripeEvent(p)
        r == ResolveHandlers(reg, hp, e.model.type)
    IN
    IF t # "ok" THEN Ending(ErrorKind(t), NoEvent, <<>>, hp)
    ELSE IF ~e.ok THEN Ending(ErrorKind("ValueError"), NoEvent, <<>>, hp)
    ELSE IF r.err # "ok" THEN Ending(r.err, e.model, <<>>, hp)
    ELSE Ending("Event", e.model, r.seq, r.heap)

\* an application whose second list object holds a callable without a
\* __name__, as functools.partial(h2, ...) is
InitPartial ==
    /\ kind \in {"handler", "manager"}
    /\ registry = EmptyDict
    /\ heap = [l \in ListObjs |-> IF l = "L1" THEN <<"h1">> ELSE <<"p1">>]
    /\ webhook_secret = "whsec_1"
    /\ pc = "Idle"
    /\ payload = NoPayload
    /\ sig_header = "whsec_1"
    /\ event = NoEvent
    /\ handlers = <<>>
    /\ idx = 0
    /\ calls = <<>>
    /\ outcome = "none"
    /\ lastOp = [k \in Keys |-> NoOp]
    /\ regError = "none"
    /\ rmpc = [t \in Threads |-> "-"]
    /\ href = "-"
    /\ instances = NoInstances
    /\ stripe_api_key = "None"
    /\ last = NoCall

\* sequential webhook use of that application
SpecPartial == InitPartial /\ [][Next]_vars

\* the delivery steps are scheduled until the call has returned or raised:
\* the verifier returns and every callback returns or raises
SpecLive ==
    /\ Init
    /\ [][Next]_vars
    /\ WF_vars(Verify)
    /\ WF_vars(Parse)
    /\ WF_vars(Resolve)
    /\ WF_vars(\E raised \in BOOLEAN : Invoke(raised))
    /\ WF_vars(Complete)

TypeOK ==
    /\ kind \in {"handler", "manager"}
    /\ DOMAIN registry \subseteq Keys
    /\ \A k \in DOMAIN registry : registry[k] \in ObjIds
    /\ pc \in {"Idle", "Received", "Verified", "Parsed", "Resolving", "Dispatching"}
             \cup Terminal
    /\ \A l \in ListObjs : Len(heap[l]) <= MaxLen

(* ------------------------- claim vocabulary --------------------------- *)

\* the header's signature validates under the secret the verifier is given
SigValid == sig_header = webhook_secret

\* the payload decodes and carries id, type and data
WellFormed(p) == p.json /\ Fields \subseteq p.fields

InFlight == pc # "Idle"

\* a plain callback is registered under k
HasCallback(k) == k \in DOMAIN registry /\ registry[k] \in Callables

\* the functions a registered object stands for
FunctionsOf(o) == IF IsIterable(o) THEN {heap[o][i] : i \in 1..Len(heap[o])} ELSE {o}

Called == {calls[i].fn : i \in 1..Len(calls)}

(* ------------------------------- C1 ----------------------------------- *)

\* C1: a delivery whose signature does not validate under the secret never
\* gets past verification: it is Rejected with SignatureMismatch and has
\* invoked no callback, whatever the registry holds, for both classes.
C1_BadSignatureRejected ==
    (InFlight /\ ~SigValid) =>
        /\ pc \in {"Received", "Rejected"}
        /\ pc = "Rejected" => outcome = "SignatureMismatch"
        /\ calls = <<>>

\* a well-formed payload with a bad signature was rejected although an
\* iterable exact-type entry and a wildcard entry were registered
C1_Witness ==
    /\ pc = "Rejected"
    /\ ~SigValid
    /\ outcome = "SignatureMismatch"
    /\ WellFormed(payload)
    /\ payload.type \in DOMAIN registry
    /\ IsIterable(registry[payload.type])
    /\ WILDCARD \in DOMAIN registry

(* ------------------------------- C2 ----------------------------------- *)

\* C2: every call ends by returning the Event or by raising
\* SignatureMismatch or MalformedPayload; no other error kind escapes.
C2_OnlyContractOutcomes ==
    pc \in Terminal =>
        \/ pc = "Completed" /\ outcome = "Event"
        \/ pc = "Rejected" /\ outcome \in {"SignatureMismatch", "MalformedPayload"}

(* ------------------------------- C3 ----------------------------------- *)

\* C3: with a callback h registered for the event's type and no wildcard
\* entry, a verified well-formed delivery ends Completed having invoked h
\* exactly once with event_object, and nothing else.
C3_ExactHandlerInvokedOnce ==
    (/\ pc \in Terminal
     /\ SigValid
     /\ WellFormed(payload)
     /\ HasCallback(payload.type)
     /\ WILDCARD \notin DOMAIN registry)
    => /\ pc = "Completed"
       /\ outcome = "Event"
       /\ Len(calls) = 1
       /\ calls[1].fn = registry[payload.type]
       /\ calls[1].arg = event_object(event)

(* ------------------------------- C4 ----------------------------------- *)

\* C4: a callback registered under "*" is invoked exactly once by every
\* delivery that passes verification and parsing, after the exact-type
\* callback when there is one.
C4_WildcardInvokedLast ==
    (/\ pc \in Terminal
     /\ SigValid
     /\ WellFormed(payload)
     /\ HasCallback(WILDCARD)
     /\ payload.type \in DOMAIN registry => HasCallback(payload.type))
    => /\ Len(calls) >= 1
       /\ calls[Len(calls)].fn = registry[WILDCARD]
       /\ Len(calls) = IF payload.type \in DOMAIN registry THEN 2 ELSE 1
       /\ payload.type \in DOMAIN registry => calls[1].fn = registry[payload.type]

(* ------------------------------- C5 ----------------------------------- *)

\* C5: with an exact-type callback and a wildcard callback registered, a
\* verified well-formed delivery invokes both (the second also when the
\* first raised) and returns the Event.
C5_FaultIsolation ==
    (/\ pc \in Terminal
     /\ SigValid
     /\ WellFormed(payload)
     /\ HasCallback(payload.type)
     /\ HasCallback(WILDCARD))
    => /\ pc = "Completed"
       /\ outcome = "Event"
       /\ Len(calls) = 2
       /\ calls[2].arg = event_object(event)

(* ------------------------------- C6 ----------------------------------- *)

\* C6: a verified well-formed delivery for which neither an exact-type
\* entry nor a wildcard entry exists never fails and never invokes
\* anything; when it ends it is Completed with the Event.
C6_NoHandlerCompletes ==
    (/\ InFlight
     /\ SigValid
     /\ WellFormed(payload)
     /\ payload.type \notin DOMAIN registry
     /\ WILDCARD \notin DOMAIN registry)
    => /\ pc \notin {"Rejected", "Crashed"}
       /\ calls = <<>>
       /\ pc = "Completed" => outcome = "Event" /\ event.type = payload.type

\* such a delivery completed while the other event type had an entry
C6_Witness ==
    /\ pc = "Completed"
    /\ outcome = "Event"
    /\ SigValid
    /\ WellFormed(payload)
    /\ payload.type \notin DOMAIN registry
    /\ WILDCARD \notin DOMAIN registry
    /\ DOMAIN registry # {}

(* ------------------------------- C7 ----------------------------------- *)

\* C7: a verified payload that lacks id, type or data is Rejected with
\* MalformedPayload, the same kind for each of the three fields.
C7_MissingFieldMalformed ==
    (/\ pc \in Terminal
     /\ SigValid
     /\ payload.json
     /\ ~(Fields \subseteq payload.fields))
    => pc = "Rejected" /\ outcome = "MalformedPayload"

(* ------------------------------- C8 ----------------------------------- *)

\* C8: a callback has been invoked only if the delivery's signature
\* validated and its payload parsed into the Event being dispatched; a
\* Rejected delivery has invoked none.
C8_DispatchAfterVerifyAndParse ==
    /\ calls # <<>> =>
          /\ pc \in {"Dispatching", "Completed", "Crashed"}
          /\ SigValid
          /\ WellFormed(payload)
          /\ event.type = payload.type
    /\ pc = "Rejected" => calls = <<>>

\* a verified delivery failed to parse while callbacks for its type were
\* registered in a shape the loop could have invoked
C8_Witness ==
    /\ pc = "Rejected"
    /\ outcome = "MalformedPayload"
    /\ SigValid
    /\ payload.json
    /\ payload.type \in DOMAIN registry
    /\ IsIterable(registry[payload.type])
    /\ calls = <<>>

(* ------------------------------- C9 ----------------------------------- *)

\* C9: when the most recent operation on a key registered an object over a
\* different one, the key holds exactly the newly registered object, and a
\* delivery invokes only functions of the objects currently registered
\* under its type and under "*" (so never the replaced one's).
C9_RegistrationOverwrites ==
    /\ \A k \in Keys :
          (lastOp[k].op = "register" /\ lastOp[k].hit) =>
              k \in DOMAIN registry /\ registry[k] = lastOp[k].obj
    /\ pc \in {"Dispatching", "Completed"} =>
          Called \subseteq
              UNION {FunctionsOf(registry[k]) :
                        k \in {event.type, WILDCARD} \cap DOMAIN registry}

\* after L2 replaced another object under the delivered type, the delivery
\* completed having invoked h2 and not h1
C9_Witness ==
    /\ pc = "Completed"
    /\ lastOp[event.type].op = "register"
    /\ lastOp[event.type].hit
    /\ registry[event.type] = "L2"
    /\ Called = {"h2"}

(* ------------------------------- C10 ---------------------------------- *)

\* C10: every key is mapped to h exactly when the most recent operation on
\* it was register(k, h), and is absent exactly when it was never operated
\* on or the most recent operation was unregister(k).
C10_RegistryFollowsLastOp ==
    \A k \in Keys :
        /\ lastOp[k].op = "register" =>
              k \in DOMAIN registry /\ registry[k] = lastOp[k].obj
        /\ lastOp[k].op \in {"none", "unregister"} => k \notin DOMAIN registry

\* one key registered and then unregistered, one key registered over an
\* earlier registration, one key never touched
C10_Witness ==
    /\ lastOp[WILDCARD].op = "unregister"
    /\ lastOp[WILDCARD].hit
    /\ lastOp["payment_intent.succeeded"].op = "register"
    /\ lastOp["payment_intent.succeeded"].hit
    /\ lastOp["customer.created"].op = "none"
    /\ DOMAIN registry = {"payment_intent.succeeded"}

(* ------------------------------- C11 ---------------------------------- *)

\* C11: an unregister of a key that is not registered changes nothing in
\* the registry and raises nothing, for both classes.
C11_UnregisterAbsentNoOp ==
    [][\A k \in Keys :
          (/\ lastOp'[k] # lastOp[k]
           /\ lastOp'[k].op = "unregister"
           /\ ~lastOp'[k].hit)
          => (registry' = registry /\ regError' = "none")]_vars

\* an absent key was unregistered while other keys were registered
C11_Witness ==
    /\ \E k \in Keys : lastOp[k].op = "unregister" /\ ~lastOp[k].hit
    /\ DOMAIN registry # {}
    /\ regError = "none"

(* ------------------------------- C12 ---------------------------------- *)

\* C12: when the verifier fails, the delivery is Rejected with exactly the
\* verifier's kind: SignatureMismatch for a bad signature, MalformedPayload
\* for an undecodable payload, and SignatureMismatch is never reported for
\* a delivery whose signature validated.
C12_VerifierKindPreserved ==
    /\ (InFlight /\ pc # "Received"
        /\ construct_event(payload, sig_header, webhook_secret) # "ok")
       => /\ pc = "Rejected"
          /\ outcome = ErrorKind(construct_event(payload, sig_header, webhook_secret))
    /\ outcome = "SignatureMismatch" => ~SigValid
    /\ (outcome = "MalformedPayload" /\ ~payload.json) => SigValid

\* a correctly signed payload that does not decode was rejected as malformed
C12_Witness ==
    /\ pc = "Rejected"
    /\ SigValid
    /\ ~payload.json
    /\ outcome = "MalformedPayload"

(* ------------------------------- C13 ---------------------------------- *)

\* C13: with register, unregister and dispatch running on several threads,
\* no registry operation ever raises; in particular two unregisters of the
\* same registered key both return normally.
C13_ThreadSafe == regError = "none"

(* ------------------------------- C14 ---------------------------------- *)

\* C14: once the Event is constructed it carries the payload's id, type
\* and api_version (unset when the payload has none), and event_object is
\* data["object"] when data has that key and the empty mapping otherwise.
C14_EventRoundTrip ==
    event # NoEvent =>
        /\ event.id = payload.id
        /\ event.type = payload.type
        /\ event.api_version = payload.api_version
        /\ event_object(event) = IF payload.obj = NoObject THEN EmptyMapping
                                 ELSE payload.obj
        /\ \A i \in 1..Len(calls) : calls[i].arg = event_object(event)

\* an event whose data has no "object" key was dispatched: the callback got
\* the empty mapping, and api_version stayed unset
C14_Witness ==
    /\ pc = "Completed"
    /\ event.data = {}
    /\ event.api_version = Unset
    /\ event.id = "evt_123"
    /\ Len(calls) = 1
    /\ calls[1].arg = EmptyMapping

(* ------------------------------- C15 ---------------------------------- *)

\* C15: when a remote call of a facade operation fails with kind k, that
\* call was attempted once and is the last one made, and the operation
\* raises k; when no call fails the operation returns.
C15_RemoteErrorPropagates ==
    last # NoCall =>
        /\ \A n \in 1..Len(last.attempts) :
              last.attempts[n].result # "ok" =>
                  /\ n = Len(last.attempts)
                  /\ last.outcome = last.attempts[n].result
        /\ (\A n \in 1..Len(last.attempts) : last.attempts[n].result = "ok")
              => last.outcome = "returned"
        /\ last.outcome \in RemoteErrors \cup {"returned"}

\* a manager method raised the rate-limit error its single remote call got
C15_Witness ==
    /\ last.op = "delete_customer"
    /\ Len(last.attempts) = 1
    /\ last.attempts[1].result = "RateLimitError"
    /\ last.outcome = "RateLimitError"

(* ------------------------------- C20 ---------------------------------- *)

\* C20: every remote call is made under the api_key of the instance whose
\* method issued it.
C20_OwnKeyUsed ==
    last # NoCall =>
        \A n \in 1..Len(last.attempts) :
            last.attempts[n].key = instances[last.inst].api_key

(* ------------------------------- C16 ---------------------------------- *)

\* the resolve sequence of the spec: the exact-type callback if registered,
\* then the wildcard callback if registered
ResolveSequence(event_type) ==
    (IF event_type \in DOMAIN registry THEN <<registry[event_type]>> ELSE <<>>)
    \o (IF WILDCARD \in DOMAIN registry THEN <<registry[WILDCARD]>> ELSE <<>>)

\* C16: with callbacks registered (both, exact only, wildcard only, or
\* neither), the callbacks a verified well-formed delivery has invoked when
\* it ends are exactly the resolve sequence, in that order.
C16_InvokedIsResolveSequence ==
    (/\ pc \in Terminal
     /\ SigValid
     /\ WellFormed(payload)
     /\ \A k \in {payload.type, WILDCARD} \cap DOMAIN registry :
           registry[k] \in Callables)
    => /\ pc = "Completed"
       /\ [n \in 1..Len(calls) |-> calls[n].fn] = ResolveSequence(payload.type)

(* ------------------------------- C17 ---------------------------------- *)

\* what the registry stores under each key: the callbacks of the value
StoredCallbacks ==
    [k \in DOMAIN registry |->
        IF IsIterable(registry[k]) THEN heap[registry[k]] ELSE <<registry[k]>>]

\* C17: no step of a delivery changes the registry: neither which object a
\* key is bound to nor what the stored value contains.
C17_DispatchReadsOnly ==
    [][pc # "Idle" => (registry' = registry /\ StoredCallbacks' = StoredCallbacks)]_vars

(* ------------------------------- C18 ---------------------------------- *)

\* C18: provided the verifier returns and every callback returns or raises,
\* every delivery that was received ends Completed or Rejected.
C18_DeliveryTerminates ==
    (pc = "Received") ~> (pc \in {"Completed", "Rejected"})

(* ------------------------------- C19 ---------------------------------- *)

\* C19: for every registry the program reaches and every payload, header
\* and secret, a StripeManager delivery and a StripeHandler delivery give
\* the same outcome, the same callbacks with the same arguments in the same
\* order, and the same stored lists; and the delivery each class actually
\* ran ended the way its whole-delivery result says.
C19_ManagerMatchesHandler ==
    /\ pc = "Idle" =>
          \A p \in Payloads, hdr \in Secrets, s \in Secrets :
              process_webhook_payload_result(registry, heap, p, hdr, s)
                  = process_webhook_result(registry, heap, p, hdr, s)
    /\ pc \in Terminal =>
          outcome =
              (IF kind = "manager"
               THEN process_webhook_payload_result(registry, heap, payload,
                                                   sig_header, webhook_secret)
               ELSE process_webhook_result(registry, heap, payload,
                                           sig_header, webhook_secret)).outcome

\* a manager delivery completed after invoking two callbacks
C19_Witness ==
    /\ kind = "manager"
    /\ pc = "Completed"
    /\ Len(calls) = 2
    /\ calls[1].fn # calls[2].fn

(* ------------------------------- C21 ---------------------------------- *)

\* what the remote side holds because of the calls of one facade operation:
\* every create call that succeeded left one object behind, and nothing
\* the operation did afterwards took it away again
RemoteHolds(rec, create) ==
    Cardinality({n \in 1..Len(rec.attempts) :
                    /\ rec.attempts[n].call = create
                    /\ rec.attempts[n].result = "ok"})

\* C21: create_subscription_product acts as one unit: when it returns the
\* remote side holds one new product and one new price, and when it raises
\* the remote side holds neither a new product nor a new price.
C21_SubscriptionProductAtomic ==
    (last # NoCall /\ last.op = "create_subscription_product") =>
        /\ last.outcome = "returned" =>
              /\ RemoteHolds(last, "Product.create") = 1
              /\ RemoteHolds(last, "Price.create") = 1
        /\ last.outcome # "returned" =>
              /\ RemoteHolds(last, "Product.create") = 0
              /\ RemoteHolds(last, "Price.create") = 0

(* ------------------------------- C22 ---------------------------------- *)

\* C22: whether or not a callback carries a __name__, a callback that
\* returned is logged as executed, a callback that raised is logged as a
\* handler failure, and a delivery that invoked any callback ends by
\* returning the Event.
C22_NameIndependentDispatch ==
    /\ \A n \in 1..Len(calls) :
          calls[n].logged = (IF calls[n].raised THEN "exception" ELSE "debug")
    /\ (pc \in Terminal /\ calls # <<>>) => (pc = "Completed" /\ outcome = "Event")

====
